---- MODULE Spec2Model ----
(***************************************************************************)
(* Session orchestration of the chat widget: ChatContainer's initiation,   *)
(* rehydration, persistence and reset, over the two browser stores, and    *)
(* ChatInterface.initiateChat, which reaches it through the EventBus.      *)
(*                                                                         *)
(* JavaScript values are modelled as one-field records so that values of   *)
(* different types can be compared: undefined, null, strings, booleans and *)
(* objects (a function from property names to values).  A property that an *)
(* object does not have is absent from the function's domain.              *)
(***************************************************************************)
EXTENDS Integers, Sequences, FiniteSets, TLC

\* ---------------------------------------------------------------- bounds
\* initiate calls (initChat events) delivered in one behaviour
MaxInits == 2
\* rehydrations that reach the Chat Session open call in one behaviour
MaxRehydrates == 1
\* initiate calls delivered to a page that is followed together with the
\* other tabs or with its host page
MaxSharedInits == 1

\* ----------------------------------------------------------- JS values
Undef == [undefined |-> TRUE]
Null == [null |-> TRUE]
Str(s) == [str |-> s]
Bool(b) == [bool |-> b]
Obj(f) == [obj |-> f]
\* a comma-joined string, kept as the list of its parts
Csv(parts) == [csv |-> parts]
EmptyObj == Obj(<<>>)

IsObj(v) == DOMAIN v = {"obj"}
\* typeof v === "string"
IsString(v) == DOMAIN v \in {{"str"}, {"csv"}}
Truthy(v) == v \notin {Undef, Null, Bool(FALSE), Str("")}
\* a || b and a && b
JsOr(a, b) == IF Truthy(a) THEN a ELSE b
JsAnd(a, b) == IF Truthy(a) THEN b ELSE a
\* v.f ; a TypeError when v is undefined or null
CanRead(v) == v \notin {Undef, Null}
Get(v, f) == IF IsObj(v) /\ f \in DOMAIN v.obj THEN v.obj[f] ELSE Undef

\* ---------------------------------------------------------------- JSON
\* JSON.stringify omits the properties whose value is undefined.
RECURSIVE JSONvalue(_)
JSONvalue(v) ==
  IF IsObj(v)
    THEN LET keep == {f \in DOMAIN v.obj : v.obj[f] # Undef}
         IN  Obj([f \in keep |-> JSONvalue(v.obj[f])])
    ELSE v
\* the text produced by JSON.stringify(v)
JSONstringify(v) == [json |-> JSONvalue(v)]
\* JSON.parse(text) throws a SyntaxError on text that is not JSON
JSONparses(text) == DOMAIN text = {"json"}
JSONparse(text) == text.json

\* ------------------------------------------------------------ constants
ATTACHMENTS == "ATTACHMENTS"
TEXT_MARKDOWN == "text/markdown"

\* -------------------------------------------------------------- inputs
\* a Chat Configuration as delivered with initChat (defaults merged in)
Config(persistence, language, permissions, contentTypes) ==
  Obj([name |-> Str("Jane"), region |-> Str("us-east-1"), stage |-> Str("prod"),
       featurePermissions |-> permissions,
       chatPersistence |-> persistence,
       language |-> language,
       supportedMessagingContentTypes |-> contentTypes])

\* one configuration for each chatPersistence value
Configs ==
  {Config(Str("localStorage"), Undef, EmptyObj, Undef),
   Config(Str("sessionStorage"), Str("fr_FR"), Obj([ATTACHMENTS |-> Bool(TRUE)]),
          Csv(<<"text/plain", TEXT_MARKDOWN>>)),
   Config(Undef, Undef, EmptyObj, Csv(<<"text/plain">>)),
   Config(Str("bogus"), Str("fr_FR"), EmptyObj, Undef),
   Config(Str("document"), Undef, EmptyObj, Undef)}

\* what the Session Initiator resolves to: the start-chat result wrapped in
\* startChatResult, the bare result, or nothing
StartChatResult(contact) ==
  Obj([ContactId |-> Str(contact), ParticipantId |-> Str("p1")])
InitiatorResults ==
  {Obj([startChatResult |-> StartChatResult("c1"),
        featurePermissions |-> Obj([ATTACHMENTS |-> Bool(TRUE)])]),
   StartChatResult("c2"),
   Null}

NetworkError == Str("NetworkError")
OpenError == Str("OpenError")
TypeError == Str("TypeError")
QuotaExceededError == Str("QuotaExceededError")

\* ------------------------------------------------- derived session data
\* submitChatInitiation, customizationParams
CustomizationParams(input) ==
  Obj([authenticationRedirectUri |->
         JsOr(Get(input, "authenticationRedirectUri"), Str("")),
       authenticationIdentityProvider |->
         JsOr(Get(input, "authenticationIdentityProvider"), Str(""))])

AttachmentsEnabled(input, chatDetails) ==
  JsOr(JsAnd(Get(input, "featurePermissions"),
             Get(Get(input, "featurePermissions"), ATTACHMENTS)),
       JsAnd(Get(chatDetails, "featurePermissions"),
             Get(Get(chatDetails, "featurePermissions"), ATTACHMENTS)))

RichMessagingEnabled(input) ==
  LET types == Get(input, "supportedMessagingContentTypes")
  IN  IF ~IsString(types)
        THEN Bool(FALSE)
        ELSE IF DOMAIN types = {"csv"}
               THEN Bool(\E i \in 1..Len(types.csv) : types.csv[i] = TEXT_MARKDOWN)
               ELSE Bool(types.str = TEXT_MARKDOWN)

\* the composerConfig and language submitChatInitiation puts in the state
ComposerConfig(input, chatDetails) ==
  Obj([attachmentsEnabled |-> AttachmentsEnabled(input, chatDetails),
       richMessagingEnabled |-> RichMessagingEnabled(input)])
InitiatedLanguage(input) == JsOr(Get(input, "language"), Str("en_US"))

\* openChatSession: the details the ChatSession is constructed from
FinalChatDetails(chatDetails) ==
  IF Truthy(Get(chatDetails, "startChatResult"))
    THEN chatDetails
    ELSE Obj([startChatResult |-> chatDetails])

\* the ChatSession object openChatSession constructs; kind and id tell the
\* objects of different calls apart
NewChatSession(kind, id, chatDetails, name, region, stage, customizationParams) ==
  [session |-> [kind |-> kind, id |-> id,
                chatDetails |-> FinalChatDetails(chatDetails),
                name |-> name, region |-> region, stage |-> stage,
                customizationParams |-> customizationParams,
                onChatClose |-> <<>>]]

\* EventBus.trigger(event, data, success, failure), as the event it puts on
\* the bus
Trigger(event, data, success, failure) ==
  [event |-> event, data |-> data, success |-> success, failure |-> failure]

\* the callback openChatSession hands to onChatClose, as the event it triggers
EndChatCallback == Trigger("endChat", EmptyObj, Undef, Undef)

\* chatSession.onChatClose(callback): the session keeps the callback
OnChatClose(chatSession, callback) ==
  [chatSession EXCEPT !.session.onChatClose = Append(@, callback)]

\* an openChatSession that hands over no close callback before the open call
OpenChatSessionUnwatched(kind, id, chatDetails, name, region, stage, params) ==
  NewChatSession(kind, id, chatDetails, name, region, stage, params)

\* openChatSession up to the open call: the session the open call is made on
OpenChatSession(kind, id, chatDetails, name, region, stage, params) ==
  OnChatClose(NewChatSession(kind, id, chatDetails, name, region, stage, params),
              EndChatCallback)

\* -------------------------------------------------------- saveChatSession
\* window[input.chatPersistence]
WindowProperty(key) ==
  IF key = Str("localStorage") THEN "localStorage"
  ELSE IF key = Str("sessionStorage") THEN "sessionStorage"
  ELSE IF key = Str("document") THEN "document"
  ELSE "undefined"

\* the Session Record saveChatSession builds
ChatSessionData(input, chatDetails, customizationParams) ==
  Obj([chatDetails |-> chatDetails,
       displayName |-> Get(input, "name"),
       region |-> Get(input, "region"),
       stage |-> Get(input, "stage"),
       customizationParams |-> customizationParams,
       language |-> Get(input, "language"),
       composerConfig |->
         Obj([attachmentsEnabled |-> AttachmentsEnabled(input, chatDetails),
              richMessagingEnabled |-> RichMessagingEnabled(input)])])

\* a removeItem that leaves the store as it is
RemoveItemKeeps(text) == text

\* removeItem('chatSessionData') on a store holding text
RemoveItem(text) == Null

\* saveChatSession without the two removals it starts with
SaveChatSessionNoClear(input, chatDetails, customizationParams, local, session, quota) ==
  LET storage == WindowProperty(Get(input, "chatPersistence"))
      text == JSONstringify(ChatSessionData(input, chatDetails, customizationParams))
  IN  IF storage = "undefined"
        THEN [local |-> RemoveItem(local), session |-> RemoveItem(session),
              threw |-> Undef]
      ELSE IF storage = "document"
        THEN [local |-> local, session |-> session, threw |-> TypeError]
      ELSE IF quota
        THEN [local |-> local, session |-> session, threw |-> QuotaExceededError]
      ELSE IF storage = "localStorage"
        THEN [local |-> text, session |-> session, threw |-> Undef]
        ELSE [local |-> local, session |-> text, threw |-> Undef]

\* saveChatSession writing to localStorage whichever store is named
SaveChatSessionLocalOnly(input, chatDetails, customizationParams, local, session, quota) ==
  LET storage == WindowProperty(Get(input, "chatPersistence"))
      text == JSONstringify(ChatSessionData(input, chatDetails, customizationParams))
  IN  IF storage = "undefined"
        THEN [local |-> Null, session |-> Null, threw |-> Undef]
      ELSE IF storage = "document"
        THEN [local |-> Null, session |-> Null, threw |-> TypeError]
      ELSE IF quota
        THEN [local |-> Null, session |-> Null, threw |-> QuotaExceededError]
        ELSE [local |-> text, session |-> Null, threw |-> Undef]

\* saveChatSession that removes the record from localStorage only
SaveChatSessionKeepsSession(input, chatDetails, customizationParams, local, session, quota) ==
  LET storage == WindowProperty(Get(input, "chatPersistence"))
      text == JSONstringify(ChatSessionData(input, chatDetails, customizationParams))
  IN  IF storage = "undefined"
        THEN [local |-> Null, session |-> Null, threw |-> Undef]
      ELSE IF storage = "document"
        THEN [local |-> Null, session |-> session, threw |-> TypeError]
      ELSE IF quota
        THEN [local |-> Null, session |-> session, threw |-> QuotaExceededError]
      ELSE IF storage = "localStorage"
        THEN [local |-> text, session |-> session, threw |-> Undef]
        ELSE [local |-> Null, session |-> text, threw |-> Undef]

\* saveChatSession run on stores holding local and session; quota tells
\* whether setItem throws QuotaExceededError.  The result is the stores
\* it leaves and the error it throws (Undef when it returns).
SaveChatSession(input, chatDetails, customizationParams, local, session, quota) ==
  LET storage == WindowProperty(Get(input, "chatPersistence"))
      local1 == RemoveItem(local)
      session1 == RemoveItem(session)
      text == JSONstringify(ChatSessionData(input, chatDetails, customizationParams))
  IN  IF storage = "undefined"
        THEN [local |-> RemoveItem(local1), session |-> RemoveItem(session1),
              threw |-> Undef]
      ELSE IF storage = "document"
        THEN [local |-> local1, session |-> session1, threw |-> TypeError]
      ELSE IF quota
        THEN [local |-> local1, session |-> session1, threw |-> QuotaExceededError]
      ELSE IF storage = "localStorage"
        THEN [local |-> text, session |-> session1, threw |-> Undef]
        ELSE [local |-> local1, session |-> text, threw |-> Undef]

\* ---------------------------------------------------------- stored text
Malformed == Str("{not json")
\* a record an earlier page left behind
StoredRecord ==
  Obj([chatDetails |-> Obj([startChatResult |-> StartChatResult("c0")]),
       displayName |-> Str("Ann"), region |-> Str("us-east-1"),
       stage |-> Str("prod"),
       customizationParams |-> CustomizationParams(EmptyObj),
       language |-> Str("de_DE"),
       composerConfig |-> Obj([attachmentsEnabled |-> Bool(TRUE),
                               richMessagingEnabled |-> Bool(FALSE)])])
\* a parseable record without a ParticipantId
NoParticipantRecord ==
  Obj([chatDetails |->
         Obj([startChatResult |-> Obj([ContactId |-> Str("c0")])]),
       language |-> Str("de_DE")])
\* what the stores may hold when the page loads
PrepopulatedTexts ==
  {Malformed, JSONstringify(StoredRecord), JSONstringify(NoParticipantRecord),
   JSONstringify(Null)}
\* what another tab of the same origin writes to localStorage
OtherTabRecord ==
  ChatSessionData(Config(Str("localStorage"), Undef, EmptyObj, Undef),
                  Obj([startChatResult |-> StartChatResult("c9")]),
                  CustomizationParams(EmptyObj))
OtherTabTexts == {Null, JSONstringify(OtherTabRecord)}

\* a test that asks for the ContactId only
ValidForRehydrationContactOnly(parsedData) ==
  LET chatDetails == Get(parsedData, "chatDetails")
  IN  Truthy(JsAnd(JsAnd(chatDetails, Get(chatDetails, "startChatResult")),
                   Get(Get(chatDetails, "startChatResult"), "ContactId")))

\* checkAndRehydrateChat's test of the parsed record
ValidForRehydration(parsedData) ==
  LET chatDetails == Get(parsedData, "chatDetails")
  IN  Truthy(JsAnd(JsAnd(JsAnd(chatDetails,
                               Get(chatDetails, "startChatResult")),
                         Get(Get(chatDetails, "startChatResult"), "ContactId")),
                   Get(Get(chatDetails, "startChatResult"), "ParticipantId")))

\* ---------------------------------------------------------------- state
VARIABLES
  status,               \* this.state.status
  chatSession,          \* this.state.chatSession
  composerConfig,       \* this.state.composerConfig
  language,             \* this.state.language
  localStorage,         \* localStorage.getItem('chatSessionData')
  sessionStorage,       \* sessionStorage.getItem('chatSessionData')
  hasLogger,            \* whether the constructor found a LogManager
  phase,                \* "constructed", "mounted" or "unmounted"
  eventBus,             \* the handlers registered on the EventBus
  inits,                \* the submitChatInitiation calls, in order of start
  rehydrations,         \* the checkAndRehydrateChat calls that opened a session
  storageEventPending,  \* a storage event for the key is queued for this page
  lastOp                \* the handler that ran last and what it did

vars ==
  <<status, chatSession, composerConfig, language, localStorage, sessionStorage,
    hasLogger, phase, eventBus, inits, rehydrations, storageEventPending,
    lastOp>>

\* what a handler did: the callbacks it invoked (with their arguments), the
\* outcome of saveChatSession in it and the arguments it was called with,
\* whether an exception escaped it, the stored text it read, and the events
\* triggered on the EventBus
Did(op, id) ==
  [op |-> op, id |-> id, success |-> <<>>, failure |-> <<>>,
   save |-> "none", escaped |-> FALSE,
   input |-> Undef, chatDetails |-> Undef, text |-> Undef, events |-> <<>>]

\* the two functions the constructor makes with initiateChatSession.bind(this):
\* the one it keeps and the one it registers
SubmitChatInitiationHandler == "initiateChatSession.bind(this) of line 54"
InitChatHandler == "initiateChatSession.bind(this) of line 55"

\* EventBus.on(event, handler) and EventBus.off(handler)
On(bus, event, handler) == bus \cup {[event |-> event, handler |-> handler]}
Off(bus, handler) == {h \in bus : h.handler # handler}
\* the handlers EventBus.trigger(event, ...) calls
Handlers(bus, event) == {h.handler : h \in {g \in bus : g.event = event}}

Init ==
  /\ status = "NotInitiated"
  /\ chatSession = Null
  /\ composerConfig = EmptyObj
  /\ language = Str("en_US")
  /\ localStorage \in PrepopulatedTexts \cup {Null}
  /\ sessionStorage \in {Null, Malformed, JSONstringify(StoredRecord)}
  /\ Null \in {localStorage, sessionStorage}
  /\ hasLogger \in BOOLEAN
  /\ phase = "constructed"
  /\ eventBus = On({}, "initChat", InitChatHandler)
  /\ inits = <<>>
  /\ rehydrations = <<>>
  /\ storageEventPending = FALSE
  /\ lastOp = Did("constructor", 0)

\* ------------------------------------------------- checkAndRehydrateChat
\* a read that asks sessionStorage first
StoredChatSessionDataSessionFirst(local, session) ==
  JsOr(JsOr(session, local), Null)

\* the stored text checkAndRehydrateChat reads: localStorage's, else
\* sessionStorage's, else null
StoredChatSessionData(local, session) ==
  JsOr(JsOr(local, session), Null)

\* The synchronous part of checkAndRehydrateChat, up to its return or to the
\* await of the open call; op names the caller.
CheckAndRehydrateChat(op) ==
  LET chatSessionData == StoredChatSessionData(localStorage, sessionStorage)
      parsedData == JSONparse(chatSessionData)
      \* JSON.parse throws, or parsedData.chatDetails reads a property of null
      throwsBeforeTest == ~JSONparses(chatSessionData) \/ ~CanRead(parsedData)
      chatDetails == Get(parsedData, "chatDetails")
      id == Len(rehydrations) + 1
  IN  IF ~Truthy(chatSessionData)
        THEN /\ status' = "NotInitiated"
             /\ lastOp' = [Did(op, 0) EXCEPT !.text = chatSessionData]
             /\ UNCHANGED <<localStorage, sessionStorage, rehydrations>>
      ELSE IF throwsBeforeTest \/ (ValidForRehydration(parsedData) /\ ~hasLogger)
        THEN \* the catch block: this.logger.error comes first
             IF hasLogger
               THEN /\ localStorage' = RemoveItem(localStorage)
                    /\ sessionStorage' = RemoveItem(sessionStorage)
                    /\ status' = "NotInitiated"
                    /\ lastOp' = [Did(op, 0) EXCEPT !.text = chatSessionData]
                    /\ UNCHANGED rehydrations
               ELSE /\ lastOp' = [Did(op, 0) EXCEPT !.escaped = TRUE,
                                                     !.text = chatSessionData]
                    /\ UNCHANGED <<status, localStorage, sessionStorage,
                                   rehydrations>>
      ELSE IF ValidForRehydration(parsedData)
        THEN /\ Len(rehydrations) < MaxRehydrates
             /\ rehydrations' = Append(rehydrations,
                  [pc |-> "open", text |-> chatSessionData,
                   session |-> OpenChatSession("rehydrate", id, chatDetails,
                                   Get(parsedData, "displayName"),
                                  Get(parsedData, "region"),
                                  Get(parsedData, "stage"),
                                  Get(parsedData, "customizationParams"))])
             /\ lastOp' = [Did(op, id) EXCEPT !.text = chatSessionData]
             /\ UNCHANGED <<status, localStorage, sessionStorage>>
        ELSE /\ status' = "NotInitiated"
             /\ lastOp' = [Did(op, 0) EXCEPT !.text = chatSessionData]
             /\ UNCHANGED <<localStorage, sessionStorage, rehydrations>>

\* componentDidMount: rehydrate, then listen for storage events
ComponentDidMount ==
  /\ phase = "constructed"
  /\ phase' = "mounted"
  /\ CheckAndRehydrateChat("componentDidMount")
  /\ UNCHANGED <<chatSession, composerConfig, language, hasLogger, eventBus,
                 inits,
                 storageEventPending>>

\* onStorageChange for an event whose key is 'chatSessionData'; an event with
\* another key changes nothing
OnStorageChange ==
  /\ phase = "mounted"
  /\ storageEventPending
  /\ storageEventPending' = FALSE
  /\ CheckAndRehydrateChat("onStorageChange")
  /\ UNCHANGED <<chatSession, composerConfig, language, hasLogger, eventBus,
                 phase, inits>>

\* the code after the await, falling back to the constructor's language when
\* the record has none
RehydrateOpenResolvedDefaultLanguage(i) ==
  /\ rehydrations[i].pc = "open"
  /\ LET parsedData == JSONparse(rehydrations[i].text)
     IN  /\ status' = "Initiated"
         /\ chatSession' = rehydrations[i].session
         /\ composerConfig' = Get(parsedData, "composerConfig")
         /\ language' = JsOr(Get(parsedData, "language"), Str("en_US"))
  /\ rehydrations' = [rehydrations EXCEPT ![i] = [pc |-> "done"]]
  /\ lastOp' = [Did("rehydrateOpenResolved", i) EXCEPT
                  !.text = rehydrations[i].text]
  /\ UNCHANGED <<localStorage, sessionStorage, hasLogger, eventBus, phase,
                 inits,
                 storageEventPending>>

\* the open call of rehydration i resolves: the code after the await
RehydrateOpenResolved(i) ==
  /\ rehydrations[i].pc = "open"
  /\ LET parsedData == JSONparse(rehydrations[i].text)
     IN  /\ status' = "Initiated"
         /\ chatSession' = rehydrations[i].session
         /\ composerConfig' = Get(parsedData, "composerConfig")
         /\ language' = Get(parsedData, "language")
  /\ rehydrations' = [rehydrations EXCEPT ![i] = [pc |-> "done"]]
  /\ lastOp' = [Did("rehydrateOpenResolved", i) EXCEPT
                  !.text = rehydrations[i].text]
  /\ UNCHANGED <<localStorage, sessionStorage, hasLogger, eventBus, phase,
                 inits,
                 storageEventPending>>

\* a rejected open call treated as a failed initiation: status InitiateFailed
\* and the record kept
RehydrateOpenRejectedAsFailure(i) ==
  /\ rehydrations[i].pc = "open"
  /\ status' = "InitiateFailed"
  /\ rehydrations' = [rehydrations EXCEPT ![i] = [pc |-> "done"]]
  /\ lastOp' = [Did("rehydrateOpenRejected", i) EXCEPT
                  !.text = rehydrations[i].text]
  /\ UNCHANGED <<chatSession, composerConfig, language, localStorage,
                 sessionStorage, hasLogger, eventBus, phase, inits,
                 storageEventPending>>

\* the open call of rehydration i rejects: the catch block, then line 113
RehydrateOpenRejected(i) ==
  /\ rehydrations[i].pc = "open"
  /\ localStorage' = RemoveItem(localStorage)
  /\ sessionStorage' = RemoveItem(sessionStorage)
  /\ status' = "NotInitiated"
  /\ rehydrations' = [rehydrations EXCEPT ![i] = [pc |-> "done"]]
  /\ lastOp' = [Did("rehydrateOpenRejected", i) EXCEPT
                  !.text = rehydrations[i].text]
  /\ UNCHANGED <<chatSession, composerConfig, language, hasLogger, eventBus,
                 phase, inits,
                 storageEventPending>>

\* ------------------------------------------------- submitChatInitiation
\* a catch block that sets the status and does not call failure
InitiateCatchSilent(op, i, error) ==
  /\ status' = "InitiateFailed"
  /\ inits' = [inits EXCEPT ![i] = [pc |-> "done"]]
  /\ lastOp' = Did(op, i)
  /\ UNCHANGED <<chatSession, composerConfig, language>>

\* the catch block of submitChatInitiation, for call i
InitiateCatch(op, i, error) ==
  /\ status' = "InitiateFailed"
  /\ inits' = [inits EXCEPT ![i] = [pc |-> "done"]]
  /\ lastOp' = [Did(op, i) EXCEPT !.failure = <<error>>]
  /\ UNCHANGED <<chatSession, composerConfig, language>>

\* an initChat event: initiateChatSession, then submitChatInitiation up to
\* the await of the Session Initiator
SubmitChatInitiation(input, did) ==
  /\ Len(inits) < MaxInits
  /\ status' = "Initiating"
  /\ inits' = Append(inits, [pc |-> "initiator", input |-> input])
  /\ lastOp' = [did EXCEPT !.id = Len(inits) + 1]
  /\ UNCHANGED <<chatSession, composerConfig, language, localStorage,
                 sessionStorage, hasLogger, eventBus, phase, rehydrations,
                 storageEventPending>>

\* an 'initChat' event reaches the handler the constructor registered
InitiateChatSession(input) ==
  /\ phase # "constructed"
  /\ InitChatHandler \in Handlers(eventBus, "initChat")
  /\ SubmitChatInitiation(input, Did("initiateChatSession", 0))

\* the Session Initiator resolves call i with chatDetails: the log line, then
\* openChatSession up to the await of the open call
InitiatorResolved(i, chatDetails) ==
  /\ inits[i].pc = "initiator"
  /\ LET input == inits[i].input
     IN  IF ~hasLogger \/ ~CanRead(chatDetails)
           THEN InitiateCatch("initiatorResolved", i, TypeError)
           ELSE /\ inits' = [inits EXCEPT ![i] =
                      [pc |-> "open", input |-> input, chatDetails |-> chatDetails,
                       session |-> OpenChatSession("initiate", i, chatDetails,
                                      Get(input, "name"), Get(input, "region"),
                                      Get(input, "stage"),
                                      CustomizationParams(input))]]
                /\ lastOp' = Did("initiatorResolved", i)
                /\ UNCHANGED <<status, chatSession, composerConfig, language>>
  /\ UNCHANGED <<localStorage, sessionStorage, hasLogger, eventBus, phase,
                 rehydrations,
                 storageEventPending>>

\* the Session Initiator rejects call i
InitiatorRejected(i) ==
  /\ inits[i].pc = "initiator"
  /\ InitiateCatch("initiatorRejected", i, NetworkError)
  /\ UNCHANGED <<localStorage, sessionStorage, hasLogger, eventBus, phase,
                 rehydrations,
                 storageEventPending>>

\* the open call of call i resolves: saveChatSession, setState, success
OpenResolved(i, quota) ==
  /\ inits[i].pc = "open"
  /\ LET input == inits[i].input
         chatDetails == inits[i].chatDetails
         saved == SaveChatSession(input, chatDetails, CustomizationParams(input),
                                  localStorage, sessionStorage, quota)
     IN  /\ localStorage' = saved.local
         /\ sessionStorage' = saved.session
         /\ IF saved.threw # Undef
              THEN /\ status' = "InitiateFailed"
                   /\ lastOp' = [Did("openResolved", i) EXCEPT
                                   !.failure = <<saved.threw>>, !.save = "threw",
                                   !.input = input, !.chatDetails = chatDetails]
                   /\ UNCHANGED <<chatSession, composerConfig, language>>
              ELSE /\ status' = "Initiated"
                   /\ chatSession' = inits[i].session
                   /\ composerConfig' = ComposerConfig(input, chatDetails)
                   /\ language' = InitiatedLanguage(input)
                   /\ lastOp' = [Did("openResolved", i) EXCEPT
                                   !.success = <<inits[i].session>>,
                                   !.save = "returned",
                                   !.input = input, !.chatDetails = chatDetails]
  /\ inits' = [inits EXCEPT ![i] = [pc |-> "done"]]
  /\ UNCHANGED <<hasLogger, eventBus, phase, rehydrations, storageEventPending>>

\* the open call of call i rejects
OpenRejected(i) ==
  /\ inits[i].pc = "open"
  /\ InitiateCatch("openRejected", i, OpenError)
  /\ UNCHANGED <<localStorage, sessionStorage, hasLogger, eventBus, phase,
                 rehydrations,
                 storageEventPending>>

\* ------------------------------------------------------------ resetState
\* a reset that drops the session and leaves the status
ResetStateKeepsStatus ==
  /\ phase = "mounted"
  /\ status \notin {"NotInitiated", "Initiating"}
  /\ localStorage' = RemoveItem(localStorage)
  /\ sessionStorage' = RemoveItem(sessionStorage)
  /\ chatSession' = Null
  /\ lastOp' = Did("resetState", 0)
  /\ UNCHANGED <<status, composerConfig, language, hasLogger, eventBus, phase,
                 inits, rehydrations, storageEventPending>>

\* resetState, from the Go Back button or from Chat's onEnded; render shows
\* neither while status is NotInitiated or Initiating
ResetState ==
  /\ phase = "mounted"
  /\ status \notin {"NotInitiated", "Initiating"}
  /\ localStorage' = RemoveItem(localStorage)
  /\ sessionStorage' = RemoveItem(sessionStorage)
  /\ status' = "NotInitiated"
  /\ chatSession' = Null
  /\ lastOp' = Did("resetState", 0)
  /\ UNCHANGED <<composerConfig, language, hasLogger, eventBus, phase, inits,
                 rehydrations,
                 storageEventPending>>

\* ------------------------------------------------------------- other tab
\* Another tab of the same origin saves or removes its record in the shared
\* localStorage; the browser queues a storage event for this page.
OtherTabWrites(text) ==
  /\ text # localStorage
  /\ localStorage' = text
  /\ storageEventPending' = (phase = "mounted")
  /\ lastOp' = Did("otherTab", 0)
  /\ UNCHANGED <<status, chatSession, composerConfig, language, sessionStorage,
                 hasLogger, eventBus, phase, inits, rehydrations>>

\* ---------------------------------------------------------------- reload
\* The page is reloaded: a new ChatContainer is constructed over the stores
\* the old one left; the old instance's pending continuations never run.
Constructor ==
  /\ phase # "constructed"
  /\ status' = "NotInitiated"
  /\ chatSession' = Null
  /\ composerConfig' = EmptyObj
  /\ language' = Str("en_US")
  /\ phase' = "constructed"
  /\ inits' = <<>>
  /\ rehydrations' = <<>>
  /\ storageEventPending' = FALSE
  /\ lastOp' = Did("constructor", 0)
  /\ eventBus' = On({}, "initChat", InitChatHandler)
  /\ UNCHANGED <<localStorage, sessionStorage, hasLogger>>

\* ------------------------------------------------------------- closure
\* the sessions whose open call has been made
OpenedSessions ==
  ({chatSession} \ {Null})
    \cup {inits[i].session : i \in {j \in 1..Len(inits) : inits[j].pc = "open"}}
    \cup {rehydrations[i].session :
            i \in {j \in 1..Len(rehydrations) : rehydrations[j].pc = "open"}}

\* an opened Chat Session reports that the chat was closed: it calls the
\* callbacks it was handed, each of which triggers its event
ChatClosed(session) ==
  /\ lastOp' = [Did("chatClosed", session.session.id) EXCEPT
                  !.events = session.session.onChatClose]
  /\ UNCHANGED <<status, chatSession, composerConfig, language, localStorage,
                 sessionStorage, hasLogger, eventBus, phase, inits,
                 rehydrations, storageEventPending>>

\* ------------------------------------------------------------- unmount
\* componentWillUnmount: EventBus.off with the function the constructor kept,
\* and the storage listener removed
ComponentWillUnmount ==
  /\ phase = "mounted"
  /\ phase' = "unmounted"
  /\ eventBus' = Off(eventBus, SubmitChatInitiationHandler)
  /\ storageEventPending' = FALSE
  /\ lastOp' = Did("componentWillUnmount", 0)
  /\ UNCHANGED <<status, chatSession, composerConfig, language, localStorage,
                 sessionStorage, hasLogger, inits, rehydrations>>

\* -------------------------------------------------------- ChatInterface
\* the defaults of ChatInterface.clientConfig
ClientConfig ==
  Obj([contactFlowId |-> Str(""), instanceId |-> Str(""), region |-> Str(""),
       stage |-> Str("prod"), contactAttributes |-> EmptyObj,
       featurePermissions |-> EmptyObj])

\* the continuations the host page passes
HostSuccess == "success"
HostFailure == "failure"

\* Object.assign({}, a, b) and {...a, ...b}: b's properties over a's
ObjectAssign(a, b) ==
  Obj([f \in DOMAIN a.obj \cup DOMAIN b.obj |->
         IF f \in DOMAIN b.obj THEN b.obj[f] ELSE a.obj[f]])

\* ChatInterface.initiateChat(input, success, failure), called by the host
\* page: the event it triggers, with the handler of that event run in the
\* same step; or the exception it throws before triggering any
ChatInterfaceInitiateChat(input) ==
  /\ phase # "constructed"
  /\ LET chatInput == ObjectAssign(ClientConfig, input)
         storage == WindowProperty(Get(input, "chatPersistence"))
         text == IF storage = "localStorage" THEN localStorage
                 ELSE sessionStorage
         throws == \/ storage = "document"
                   \/ /\ storage \in {"localStorage", "sessionStorage"}
                      /\ text # Null
                      /\ ~JSONparses(text)
         chatSessionData ==
           IF storage = "undefined" THEN Undef
           ELSE IF text = Null THEN Null ELSE JSONparse(text)
         did == [Did("ChatInterface.initiateChat", 0) EXCEPT !.input = input]
     IN  IF throws
           THEN /\ lastOp' = [did EXCEPT !.escaped = TRUE]
                /\ UNCHANGED <<status, inits>>
         ELSE IF Truthy(chatSessionData)
           THEN /\ lastOp' = [did EXCEPT !.events =
                       <<Trigger("rehydrateChat",
                                 ObjectAssign(chatInput, chatSessionData),
                                 HostSuccess, HostFailure)>>]
                /\ UNCHANGED <<status, inits>>
         ELSE IF InitChatHandler \in Handlers(eventBus, "initChat")
           THEN SubmitChatInitiation(chatInput,
                  [did EXCEPT !.events =
                     <<Trigger("initChat", chatInput, HostSuccess, HostFailure)>>])
         ELSE /\ lastOp' = [did EXCEPT !.events =
                     <<Trigger("initChat", chatInput, HostSuccess, HostFailure)>>]
              /\ UNCHANGED <<status, inits>>
  /\ UNCHANGED <<chatSession, composerConfig, language, localStorage,
                 sessionStorage, hasLogger, eventBus, phase, rehydrations,
                 storageEventPending>>

\* one ChatContainer, from its construction on
NextInstance ==
  \/ ComponentDidMount
  \/ \E i \in 1..Len(rehydrations) : RehydrateOpenResolved(i)
  \/ \E i \in 1..Len(rehydrations) : RehydrateOpenRejected(i)
  \/ \E input \in Configs : InitiateChatSession(input)
  \/ \E i \in 1..Len(inits), d \in InitiatorResults : InitiatorResolved(i, d)
  \/ \E i \in 1..Len(inits) : InitiatorRejected(i)
  \/ \E i \in 1..Len(inits), quota \in BOOLEAN : OpenResolved(i, quota)
  \/ \E i \in 1..Len(inits) : OpenRejected(i)
  \/ ResetState

\* one page on its own, reloads included
NextPage ==
  \/ NextInstance
  \/ Constructor

SpecPage == Init /\ [][NextPage]_vars

\* the page and the other tabs that share localStorage with it
Next ==
  \/ NextPage
  \/ OnStorageChange
  \/ \E text \in OtherTabTexts : OtherTabWrites(text)

Spec == Init /\ [][Next]_vars

\* one ChatContainer, with at most MaxSharedInits initiate calls, and the
\* other tabs
NextTabs ==
  \/ NextInstance /\ Len(inits') <= MaxSharedInits
  \/ OnStorageChange
  \/ \E text \in OtherTabTexts : OtherTabWrites(text)

SpecTabs == Init /\ [][NextTabs]_vars

\* the page, with at most MaxSharedInits initiate calls, and its host: the
\* calls of ChatInterface.initiateChat, the Chat component being taken off
\* the page, and the chats being closed
NextHost ==
  \/ NextPage /\ Len(inits') <= MaxSharedInits
  \/ \E input \in Configs :
       ChatInterfaceInitiateChat(input) /\ Len(inits') <= MaxSharedInits
  \/ ComponentWillUnmount
  \/ \E session \in OpenedSessions : ChatClosed(session)

SpecHost == Init /\ [][NextHost]_vars

TypeOK ==
  /\ status \in {"NotInitiated", "Initiating", "Initiated", "InitiateFailed"}
  /\ phase \in {"constructed", "mounted", "unmounted"}
  /\ Len(inits) <= MaxInits
  /\ Len(rehydrations) <= MaxRehydrates

\* ================================================================ claims
InFlight == {i \in 1..Len(inits) : inits[i].pc # "done"}
Stores == {Str("localStorage"), Str("sessionStorage")}
Records == {text \in {localStorage, sessionStorage} : text # Null}
IsCheck(op) == op \in {"componentDidMount", "onStorageChange"}
\* the ContactId a Session Initiator result carries, wrapped or bare
ContactIdOf(chatDetails) ==
  JsOr(Get(Get(chatDetails, "startChatResult"), "ContactId"),
       Get(chatDetails, "ContactId"))
\* text is the serialized record of the call with this input and chatDetails
FreshRecord(text, input, chatDetails) ==
  /\ JSONparses(text)
  /\ Get(JSONparse(text), "chatDetails") = JSONvalue(chatDetails)
  /\ Get(JSONparse(text), "displayName") = Get(input, "name")
  /\ Get(JSONparse(text), "region") = Get(input, "region")
  /\ Get(JSONparse(text), "stage") = Get(input, "stage")
  /\ Get(JSONparse(text), "language") = Get(input, "language")

\* C1: while one initiate call is in flight (its Session Initiator call or
\* its open call has not settled), no second one has called the Session
\* Initiator: at most one initiate call is in flight.
C1_OneInitiateInFlight == Cardinality(InFlight) <= 1

\* C2: an initiate call that fails at the Session Initiator call or at the
\* open call sets status InitiateFailed and invokes onFailure with the error
\* (and not onSuccess), and no step of such a call writes or removes
\* 'chatSessionData' in either store.
C2_FailedInitiateKeepsStorage ==
  [][LET op == lastOp'.op
     IN  /\ op \in {"initiatorRejected", "openRejected"}
              => /\ status' = "InitiateFailed"
                 /\ lastOp'.failure =
                      <<IF op = "initiatorRejected" THEN NetworkError ELSE OpenError>>
                 /\ lastOp'.success = <<>>
         /\ (op = "initiatorResolved" /\ inits'[lastOp'.id].pc = "done")
              => /\ status' = "InitiateFailed"
                 /\ lastOp'.failure = <<TypeError>>
                 /\ lastOp'.success = <<>>
         /\ op \in {"initiateChatSession", "initiatorResolved",
                    "initiatorRejected", "openRejected"}
              => /\ localStorage' = localStorage
                 /\ sessionStorage' = sessionStorage]_vars
\* an open call was rejected while a record was stored
C2_Witness ==
  /\ lastOp.op = "openRejected"
  /\ status = "InitiateFailed"
  /\ lastOp.failure = <<OpenError>>
  /\ Records # {}

\* The first initiate call of a page on which no rehydration opened a session
\* starts in status NotInitiated: until then only componentDidMount has run.
FirstCallFromNotInitiated == lastOp.id = 1 /\ rehydrations = <<>>

C4_AtMostOneRecord == ~(localStorage # Null /\ sessionStorage # Null)

\* C5: after saveChatSession returns, the store chatPersistence names holds
\* the record built from the call's data and the other store holds none;
\* when chatPersistence names no store, both stores hold none.
C5_PersistWritesNamedStore ==
  lastOp.op = "openResolved"
    => LET mode == Get(lastOp.input, "chatPersistence")
       IN  /\ (lastOp.save = "returned" /\ mode = Str("localStorage"))
                => /\ FreshRecord(localStorage, lastOp.input, lastOp.chatDetails)
                   /\ sessionStorage = Null
           /\ (lastOp.save = "returned" /\ mode = Str("sessionStorage"))
                => /\ FreshRecord(sessionStorage, lastOp.input, lastOp.chatDetails)
                   /\ localStorage = Null
           /\ mode \notin Stores
                => localStorage = Null /\ sessionStorage = Null
\* saveChatSession returned after writing to sessionStorage
C5_Witness ==
  /\ lastOp.op = "openResolved"
  /\ lastOp.save = "returned"
  /\ Get(lastOp.input, "chatPersistence") = Str("sessionStorage")
  /\ sessionStorage # Null

\* the stores a second saveChatSession with the same arguments would leave
SavedAgain ==
  SaveChatSession(lastOp.input, lastOp.chatDetails,
                  CustomizationParams(lastOp.input),
                  localStorage, sessionStorage, FALSE)
\* C6 as stated: a second saveChatSession with the same arguments leaves the
\* stores as the first left them, with exactly one record in exactly one
\* store, whatever the arguments.
C6_Original ==
  (lastOp.op = "openResolved" /\ lastOp.save = "returned")
    => /\ SavedAgain.local = localStorage
       /\ SavedAgain.session = sessionStorage
       /\ Cardinality(Records) = 1
       /\ Null \in {localStorage, sessionStorage}
\* C6 amended: a second saveChatSession with the same arguments, returning as
\* the first did, leaves the stores as the first left them: exactly one
\* record in exactly one store when chatPersistence names a store, and no
\* record otherwise.
C6_PersistIdempotent ==
  (lastOp.op = "openResolved" /\ lastOp.save = "returned")
    => /\ SavedAgain.threw = Undef
       /\ SavedAgain.local = localStorage
       /\ SavedAgain.session = sessionStorage
       /\ Null \in {localStorage, sessionStorage}
       /\ IF Get(lastOp.input, "chatPersistence") \in Stores
            THEN Cardinality(Records) = 1
            ELSE Records = {}
\* saveChatSession returned with a record in localStorage
C6_Witness ==
  /\ lastOp.op = "openResolved"
  /\ lastOp.save = "returned"
  /\ localStorage # Null
  /\ SavedAgain.local = localStorage

\* C7: right after resetState neither store holds a value under
\* 'chatSessionData', status is NotInitiated and chatSession is null.
C7_ResetClears ==
  lastOp.op = "resetState"
    => /\ localStorage = Null
       /\ sessionStorage = Null
       /\ status = "NotInitiated"
       /\ chatSession = Null
\* a reset after a session had been set up (its composerConfig is still there)
C7_Witness ==
  /\ lastOp.op = "resetState"
  /\ composerConfig # EmptyObj
  /\ status = "NotInitiated"

\* C8: checkAndRehydrateChat on a stored record with ContactId and
\* ParticipantId calls the open call (a logger being there), and when that
\* call succeeds status is Initiated, chatSession is the session opened from
\* the record's chatDetails, and composerConfig and language are the record's.
C8_RehydrateRestoresRecord ==
  /\ (/\ IsCheck(lastOp.op)
      /\ hasLogger
      /\ JSONparses(lastOp.text)
      /\ ValidForRehydration(JSONparse(lastOp.text)))
       => /\ lastOp.id # 0
          /\ rehydrations[lastOp.id].pc = "open"
          /\ rehydrations[lastOp.id].text = lastOp.text
  /\ lastOp.op = "rehydrateOpenResolved"
       => LET R == JSONparse(lastOp.text)
          IN  /\ ValidForRehydration(R)
              /\ status = "Initiated"
              /\ chatSession.session.kind = "rehydrate"
              /\ chatSession.session.id = lastOp.id
              /\ chatSession.session.chatDetails = Get(R, "chatDetails")
              /\ composerConfig = Get(R, "composerConfig")
              /\ language = Get(R, "language")
\* a record without a language was rehydrated
C8_Witness ==
  /\ lastOp.op = "rehydrateOpenResolved"
  /\ status = "Initiated"
  /\ ValidForRehydration(JSONparse(lastOp.text))
  /\ language = Undef

\* C9: checkAndRehydrateChat on unparseable text removes the key from both
\* stores, ends with status NotInitiated, calls no open call and lets no
\* exception escape.
C9_MalformedTextIsCleared ==
  (IsCheck(lastOp.op) /\ Truthy(lastOp.text) /\ ~JSONparses(lastOp.text))
    => /\ localStorage = Null
       /\ sessionStorage = Null
       /\ status = "NotInitiated"
       /\ lastOp.id = 0
       /\ ~lastOp.escaped

\* C10: when the Session Initiator call and the open call have both
\* succeeded and the storage write in saveChatSession fails, the call still
\* ends in status Initiated and invokes onSuccess and not onFailure.
C10_FailedSaveKeepsInitiation ==
  (lastOp.op = "openResolved" /\ lastOp.save = "threw")
    => /\ status = "Initiated"
       /\ lastOp.success # <<>>
       /\ lastOp.failure = <<>>

\* C11: when both stores hold a value under 'chatSessionData',
\* checkAndRehydrateChat reads localStorage's: the session it opens is built
\* from the localStorage record, and what a successful open restores is that
\* record's composerConfig and language.
C11_LocalStorageWins ==
  [][/\ (/\ IsCheck(lastOp'.op)
         /\ localStorage # Null
         /\ sessionStorage # Null)
          => /\ lastOp'.text = localStorage
             /\ lastOp'.id # 0
                  => /\ rehydrations'[lastOp'.id].text = localStorage
                     /\ rehydrations'[lastOp'.id].session.session.chatDetails
                          = Get(JSONparse(localStorage), "chatDetails")
     /\ lastOp'.op = "rehydrateOpenResolved"
          => /\ chatSession' = rehydrations[lastOp'.id].session
             /\ composerConfig' =
                  Get(JSONparse(rehydrations[lastOp'.id].text), "composerConfig")
             /\ language' =
                  Get(JSONparse(rehydrations[lastOp'.id].text), "language")]_vars
\* a rehydration read localStorage's record while sessionStorage held another
C11_Witness ==
  /\ IsCheck(lastOp.op)
  /\ lastOp.id # 0
  /\ localStorage # Null
  /\ sessionStorage # Null
  /\ sessionStorage # localStorage
  /\ JSONparses(sessionStorage)
  /\ lastOp.text = localStorage

\* C12: every Chat Session on which the open call has been made, for a fresh
\* initiation or for a rehydration, was handed exactly one close callback
\* before that call; and each closure such a session reports triggers exactly
\* one 'endChat' event with an empty payload.
C12_EndChatOnClose ==
  /\ \A s \in OpenedSessions :
       s.session.onChatClose =
         <<[event |-> "endChat", data |-> EmptyObj,
            success |-> Undef, failure |-> Undef]>>
  /\ lastOp.op = "chatClosed"
       => /\ Len(lastOp.events) = 1
          /\ lastOp.events[1].event = "endChat"
          /\ lastOp.events[1].data = EmptyObj
\* a rehydrated session reported the closure of its chat
C12_Witness ==
  /\ lastOp.op = "chatClosed"
  /\ status = "Initiated"
  /\ chatSession.session.kind = "rehydrate"
  /\ lastOp.id = chatSession.session.id
  /\ Len(lastOp.events) = 1

\* the text held by the store that chatPersistence names, if it names one
NamedStoreText(input) ==
  IF Get(input, "chatPersistence") = Str("localStorage") THEN localStorage
  ELSE IF Get(input, "chatPersistence") = Str("sessionStorage")
    THEN sessionStorage
  ELSE Null
\* that store holds a record: a text other than the text "null"
HoldsRecord(input) ==
  NamedStoreText(input) \notin {Null, JSONstringify(Null)}

\* C13: every call of ChatInterface.initiateChat triggers exactly one event,
\* with the host's continuations: 'rehydrateChat' with the merged
\* configuration and the recovered record when the store chatPersistence
\* names holds a record, and 'initChat' with the merged configuration (the
\* host's values over the defaults) otherwise.
C13_InitiateChatTriggersOneEvent ==
  lastOp.op = "ChatInterface.initiateChat"
    => /\ ~lastOp.escaped
       /\ Len(lastOp.events) = 1
       /\ lastOp.events[1].success = HostSuccess
       /\ lastOp.events[1].failure = HostFailure
       /\ lastOp.events[1].event =
            IF HoldsRecord(lastOp.input) THEN "rehydrateChat" ELSE "initChat"
       /\ LET data == lastOp.events[1].data
              recovered == IF HoldsRecord(lastOp.input)
                             THEN JSONparse(NamedStoreText(lastOp.input))
                             ELSE EmptyObj
          IN  \A f \in DOMAIN data.obj \cup DOMAIN recovered.obj
                         \cup DOMAIN lastOp.input.obj \cup DOMAIN ClientConfig.obj :
                Get(data, f) =
                  IF f \in DOMAIN recovered.obj THEN Get(recovered, f)
                  ELSE IF f \in DOMAIN lastOp.input.obj THEN Get(lastOp.input, f)
                  ELSE Get(ClientConfig, f)

\* a record lacks chatDetails, startChatResult, ContactId or ParticipantId
MissingPart(R) ==
  LET startChatResult == Get(Get(R, "chatDetails"), "startChatResult")
  IN  \/ Get(R, "chatDetails") = Undef
      \/ startChatResult = Undef
      \/ Get(startChatResult, "ContactId") = Undef
      \/ Get(startChatResult, "ParticipantId") = Undef

\* C14: checkAndRehydrateChat on a parseable record that lacks chatDetails,
\* startChatResult, ContactId or ParticipantId makes no open call and ends
\* with status NotInitiated; no open call is ever pending for such a record
\* and none ever succeeds for one, so status is never set Initiated from it.
C14_InvalidRecordNotRehydrated ==
  /\ (/\ IsCheck(lastOp.op)
      /\ JSONparses(lastOp.text)
      /\ IsObj(JSONparse(lastOp.text))
      /\ MissingPart(JSONparse(lastOp.text)))
       => /\ lastOp.id = 0
          /\ status = "NotInitiated"
          /\ ~lastOp.escaped
  /\ \A i \in 1..Len(rehydrations) :
       rehydrations[i].pc = "open"
         => ~MissingPart(JSONparse(rehydrations[i].text))
  /\ lastOp.op = "rehydrateOpenResolved"
       => ~MissingPart(JSONparse(lastOp.text))
\* a check read a record without a ParticipantId and left it where it was
C14_Witness ==
  /\ IsCheck(lastOp.op)
  /\ JSONparses(lastOp.text)
  /\ IsObj(JSONparse(lastOp.text))
  /\ Get(Get(Get(JSONparse(lastOp.text), "chatDetails"), "startChatResult"),
         "ContactId") # Undef
  /\ MissingPart(JSONparse(lastOp.text))
  /\ lastOp.id = 0
  /\ status = "NotInitiated"
  /\ lastOp.text \in {localStorage, sessionStorage}

\* C15: once componentWillUnmount has run, no handler of the component is
\* registered for 'initChat', and no 'initChat' event starts an initiate call
\* on the unmounted component.
C15_UnmountRemovesHandler ==
  phase = "unmounted"
    => /\ \A h \in eventBus : h.event # "initChat"
       /\ lastOp.op \in {"initiateChatSession", "ChatInterface.initiateChat"}
            => lastOp.id = 0

\* C16: when the record a rehydration restored is the one a successful
\* initiate call with chatPersistence 'localStorage' or 'sessionStorage'
\* persisted, the rehydration leaves the attachmentsEnabled,
\* richMessagingEnabled and language that the initiate call had put in the
\* state, whatever the configuration, one without a language included.
C16_RoundTrip ==
  lastOp.op = "rehydrateOpenResolved"
    => \A input \in Configs, chatDetails \in InitiatorResults \ {Null} :
         (/\ Get(input, "chatPersistence") \in Stores
          /\ lastOp.text =
               JSONstringify(ChatSessionData(input, chatDetails,
                                             CustomizationParams(input))))
           => /\ Get(composerConfig, "attachmentsEnabled")
                   = AttachmentsEnabled(input, chatDetails)
              /\ Get(composerConfig, "richMessagingEnabled")
                   = RichMessagingEnabled(input)
              /\ language = InitiatedLanguage(input)

\* the steps in which an initiate call settles
Settles(op) ==
  op \in {"initiatorResolved", "initiatorRejected", "openResolved", "openRejected"}

\* C17: while an initiate call is in flight on a component, its status leaves
\* Initiating only in a step in which an initiate call in flight settles,
\* and then for Initiated or InitiateFailed.
C17_OnlyTheInitiateLeavesInitiating ==
  [][(/\ InFlight # {}
      /\ status = "Initiating"
      /\ status' # "Initiating"
      /\ lastOp'.op # "constructor")
       => /\ Settles(lastOp'.op)
          /\ lastOp'.id \in InFlight
          /\ status' \in {"Initiated", "InitiateFailed"}]_vars

\* C18: when the open call of a rehydration fails, no exception escapes and
\* no continuation is invoked, the key is removed from both stores and status
\* is NotInitiated; and no step of the rehydration path leaves status
\* InitiateFailed.
C18_FailedRehydrationClears ==
  /\ lastOp.op = "rehydrateOpenRejected"
       => /\ ~lastOp.escaped
          /\ lastOp.failure = <<>>
          /\ localStorage = Null
          /\ sessionStorage = Null
          /\ status = "NotInitiated"
  /\ (IsCheck(lastOp.op)
        \/ lastOp.op \in {"rehydrateOpenResolved", "rehydrateOpenRejected"})
       => status # "InitiateFailed"
\* the open call failed for a record with ContactId and ParticipantId
C18_Witness ==
  /\ lastOp.op = "rehydrateOpenRejected"
  /\ JSONparses(lastOp.text)
  /\ ~MissingPart(JSONparse(lastOp.text))
  /\ Records = {}
  /\ status = "NotInitiated"

\* C19: an initiate call whose Session Initiator call and open call have both
\* settled invokes exactly one continuation, once, in the step in which the
\* open call settles: onSuccess with the opened session when both succeeded,
\* onFailure with the error when the open call failed; and the call is done.
C19_OneContinuationOnce ==
  /\ lastOp.op = "openResolved"
       => /\ Len(lastOp.success) = 1
          /\ lastOp.success[1].session.kind = "initiate"
          /\ lastOp.success[1].session.id = lastOp.id
          /\ lastOp.failure = <<>>
          /\ inits[lastOp.id].pc = "done"
  /\ lastOp.op = "openRejected"
       => /\ lastOp.success = <<>>
          /\ lastOp.failure = <<OpenError>>
          /\ inits[lastOp.id].pc = "done"

\* C20: whenever status is Initiated, chatSession is not null.
C20_InitiatedHasSession == status = "Initiated" => chatSession # Null
\* Initiated by a rehydration whose open call resolved after an initiate
\* call had ended
C20_Witness ==
  /\ status = "Initiated"
  /\ chatSession # Null
  /\ lastOp.op = "rehydrateOpenResolved"
  /\ Len(inits) = 1
  /\ inits[1].pc = "done"

====
